---- MODULE Spec2Model ----
(***************************************************************************)
(* Model of src/modules/use_handler.rs: the `use` pipeline of bob.         *)
(* start -> parse_version -> download_version -> install_version.          *)
(* Strings are sequences of one-character strings, Option<T> is a sequence *)
(* of length 0 (None) or 1 (Some), and every await point of the async code *)
(* is a step of the state machine.                                         *)
(***************************************************************************)
EXTENDS Integers, Sequences, FiniteSets, TLC

VARIABLES target_os, arg, pc, version, result, requests, stages,
          stage_results, bob_dir_exists, dir_created, files, response,
          total_size, downloaded, pb_position, received, chunks_seen,
          downloaded_file, procs, output

vars == <<target_os, arg, pc, version, result, requests, stages,
          stage_results, bob_dir_exists, dir_created, files, response,
          total_size, downloaded, pb_position, received, chunks_seen,
          downloaded_file, procs, output>>

\* ---------------------------------------------------------------- bounds
MaxTokenLen == 5
MaxTotalSize == 1
MaxChunkLen == 1
MaxChunks == 2

\* ------------------------------------------------------- values, inputs
None == <<>>
Some(x) == <<x>>

Nightly == <<"n", "i", "g", "h", "t", "l", "y">>
Stable == <<"s", "t", "a", "b", "l", "e">>

Digits == {"0", "1", "2", "3", "4", "5", "6", "7", "8", "9"}

Alphabet == {"v", "1", ".", "x"}

ExampleTokens ==
    { <<"v", "0", ".", "9", ".", "2">>,
      <<"0", ".", "9", ".", "2">>,
      <<"l", "a", "t", "e", "s", "t">>,
      <<"1", ".", "2">>,
      <<"d", "o", "e", "s", "n", "o", "t", "e", "x", "i", "s", "t">> }

Tokens ==
    {Nightly, Stable} \cup ExampleTokens
        \cup UNION { [1..n -> Alphabet] : n \in 0..MaxTokenLen }

\* Bodies the release-metadata endpoint may answer with: a document with a
\* tag_name field, or one without it.
MetadataTags ==
    { <<"v", "0", ".", "9", ".", "2">>,
      <<".", ".", "/", "x">> }

MetadataBodies ==
    { [has_tag_name |-> TRUE, tag_name |-> t] : t \in MetadataTags }
        \cup { [has_tag_name |-> FALSE, tag_name |-> <<>>] }

MetadataResponses ==
    { [send_ok |-> s, body |-> b] : s \in BOOLEAN, b \in MetadataBodies }

Statuses == {200, 204, 404}

Bytes == {"a", "b"}

Chunks == UNION { [1..n -> Bytes] : n \in 0..MaxChunkLen }

Stderrs == { <<>>, <<"e", "0xFF">> }

\* ----------------------------------------------------------- results
Running == [status |-> "running", error |-> "", detail |-> <<>>]
Ok == [status |-> "ok", error |-> "", detail |-> <<>>]
Err(e, d) == [status |-> "err", error |-> e, detail |-> d]
Panic(e) == [status |-> "panic", error |-> e, detail |-> <<>>]

\* The error messages of the source, by the failure they stand for.
NoVersionSpecified == "Todo.."
InvalidVersionFormat == "Please provide a proper version string"
VersionNotFound == "Please provide an existing neovim version"
NoDataFolder == "Couldn't get data folder"
StreamError == "hello"
ExtractionFailed == "Failed to uncompress"
NetworkError == "reqwest::Error"
ParseError == "serde_json::Error"
IoError == "std::io::Error"
UnwrapOnNone == "called Option::unwrap() on a None value"

\* ------------------------------------------------------ parse_version
\* Regex ^v?[0-9]+\.[0-9]+\.[0-9]+$ as the automaton the pattern compiles to.
\* States: 0 start, 1 after v, 2 major, 3 first dot, 4 minor, 5 second dot,
\* 6 patch (accepting), 7 dead.
regex_step(q, c) ==
    CASE q = 0 /\ c = "v" -> 1
      [] q \in {0, 1, 2} /\ c \in Digits -> 2
      [] q = 2 /\ c = "." -> 3
      [] q \in {3, 4} /\ c \in Digits -> 4
      [] q = 4 /\ c = "." -> 5
      [] q \in {5, 6} /\ c \in Digits -> 6
      [] OTHER -> 7

RECURSIVE regex_run(_, _, _)
regex_run(q, s, i) ==
    IF i > Len(s) THEN q ELSE regex_run(regex_step(q, s[i]), s, i + 1)

regex_is_match_loose(s) == regex_run(0, s, 1) \in {4, 6}

regex_is_match(s) == regex_run(0, s, 1) = 6

contains(s, c) == \E i \in 1..Len(s) : s[i] = c

returned_version_always_insert(s) == <<"v">> \o s

returned_version(s) == IF ~contains(s, "v") THEN <<"v">> \o s ELSE s

MetadataUrl == <<"https://api.github.com/repos/neovim/neovim/releases/latest">>

\* parse_version(client, version) against the answer `http` the metadata
\* endpoint gives if it is asked.
parse_version(s, http) ==
    IF s = Nightly
    THEN [ok |-> TRUE, value |-> s, error |-> "", requests |-> <<>>]
    ELSE IF s = Stable
    THEN IF ~http.send_ok
         THEN [ok |-> FALSE, value |-> <<>>, error |-> NetworkError,
               requests |-> <<MetadataUrl>>]
         ELSE IF ~http.body.has_tag_name
         THEN [ok |-> FALSE, value |-> <<>>, error |-> ParseError,
               requests |-> <<MetadataUrl>>]
         ELSE [ok |-> TRUE, value |-> http.body.tag_name, error |-> "",
               requests |-> <<MetadataUrl>>]
    ELSE IF regex_is_match(s)
    THEN [ok |-> TRUE, value |-> returned_version(s), error |-> "",
          requests |-> <<>>]
    ELSE [ok |-> FALSE, value |-> <<>>, error |-> InvalidVersionFormat,
          requests |-> <<>>]

\* --------------------------------------------------- download_version
get_file_type(os) ==
    IF os = "windows" THEN <<"z", "i", "p">>
    ELSE <<"t", "a", "r", ".", "g", "z">>

os_segment(os) ==
    IF os = "linux" THEN "linux64"
    ELSE IF os = "windows" THEN "win64"
    ELSE "macos"

request_url(v, os) ==
    <<"https://github.com/neovim/neovim/releases/download/">> \o v
        \o <<"/nvim-", os_segment(os), ".">> \o get_file_type(os)

DataLocalDir == <<"/home/user/.local/share">>

\* get_downloads_folder against the environment: data_dir is what
\* data_local_dir() answers, exists whether <data_dir>/bob is there, and
\* create_ok whether create_dir succeeds when it is called.
get_downloads_folder(data_dir, exists, create_ok) ==
    IF data_dir = None
    THEN [ok |-> FALSE, value |-> <<>>, error |-> NoDataFolder,
          created |-> FALSE]
    ELSE IF ~exists /\ ~create_ok
    THEN [ok |-> FALSE, value |-> <<>>, error |-> IoError, created |-> FALSE]
    ELSE [ok |-> TRUE, value |-> data_dir[1] \o <<"/", "b", "o", "b">>,
          error |-> "", created |-> ~exists]

archive_path(dir, v, file_type) == dir \o <<"/">> \o v \o <<".">> \o file_type

response_accepted_any_2xx(status) == status >= 200 /\ status < 300

response_accepted(status) == status = 200

min(a, b) == IF a < b THEN a ELSE b

new_position_unclamped(done, len, total) == done + len

new_position(done, len, total) == min(done + len, total)

\* ---------------------------------------------------- install_version
install_command(df, os) ==
    IF os = "windows"
    THEN [program |-> "powershell", current_dir |-> df.path,
          archive |-> df.name \o <<".">> \o df.extension,
          dest |-> <<".", "/">> \o df.name]
    ELSE [program |-> "bash", current_dir |-> df.path,
          archive |-> df.name, dest |-> <<>>]

from_utf8_lossy(bytes) ==
    [i \in 1..Len(bytes) |-> IF bytes[i] = "0xFF" THEN "U+FFFD" ELSE bytes[i]]

install_outcome_ignore_status(df, out) == Ok

install_outcome(df, out) ==
    IF ~out.success
    THEN Err(ExtractionFailed, df.name \o <<" ">> \o from_utf8_lossy(out.stderr))
    ELSE Ok

\* Outputs the extraction subprocess can produce: the tool cannot succeed on
\* an archive operand that names no file of its working directory.
outputs(cmd, fs) ==
    { [success |-> s, stderr |-> e] : s \in BOOLEAN, e \in Stderrs }
        \ { o \in [success : {TRUE}, stderr : Stderrs] :
              (cmd.current_dir \o <<"/">> \o cmd.archive) \notin DOMAIN fs }

\* ------------------------------------------------------------ machine
Init ==
    /\ target_os \in {"linux", "windows", "macos"}
    /\ arg \in {None} \cup { Some(t) : t \in Tokens }
    /\ bob_dir_exists \in BOOLEAN
    /\ pc = "start"
    /\ version = <<>>
    /\ result = Running
    /\ requests = <<>>
    /\ stages = <<>>
    /\ stage_results = <<>>
    /\ dir_created = FALSE
    /\ files = <<>>
    /\ response = None
    /\ total_size = 0
    /\ downloaded = 0
    /\ pb_position = 0
    /\ received = <<>>
    /\ chunks_seen = 0
    /\ downloaded_file = None
    /\ procs = <<>>
    /\ output = None

\* A plausible slip: a missing argument falls back to nightly instead of
\* failing.
Start_default_nightly ==
    /\ pc = "start"
    /\ IF arg = None
       THEN /\ version' = Nightly
            /\ pc' = "download_version"
       ELSE /\ version' = version
            /\ pc' = "parse_version"
    /\ UNCHANGED <<target_os, arg, result, requests, stages, stage_results,
                   bob_dir_exists, dir_created, files, response, total_size,
                   downloaded, pb_position, received, chunks_seen,
                   downloaded_file, procs, output>>

\* start, lines 15-23: the VERSION argument is looked up.
Start ==
    /\ pc = "start"
    /\ IF arg = None
       THEN /\ result' = Err(NoVersionSpecified, <<>>)
            /\ pc' = "done"
       ELSE /\ result' = result
            /\ pc' = "parse_version"
    /\ UNCHANGED <<target_os, arg, version, requests, stages, stage_results,
                   bob_dir_exists, dir_created, files, response, total_size,
                   downloaded, pb_position, received, chunks_seen,
                   downloaded_file, procs, output>>

\* start, lines 17-20: parse_version is awaited and its error returned.
ParseVersion ==
    /\ pc = "parse_version"
    /\ \E http \in MetadataResponses :
         LET r == parse_version(arg[1], http) IN
           /\ stages' = Append(stages, "resolve")
           /\ requests' = requests \o r.requests
           /\ IF r.ok
              THEN /\ version' = r.value
                   /\ stage_results' = Append(stage_results, "ok")
                   /\ result' = result
                   /\ pc' = "download_version"
              ELSE /\ version' = version
                   /\ stage_results' = Append(stage_results, "err")
                   /\ result' = Err(r.error, <<>>)
                   /\ pc' = "done"
    /\ UNCHANGED <<target_os, arg, bob_dir_exists, dir_created, files,
                   response, total_size, downloaded, pb_position, received,
                   chunks_seen, downloaded_file, procs, output>>

\* download_version, line 69: send_request is awaited.
DownloadRequest ==
    /\ pc = "download_version"
    /\ stages' = Append(stages, "download")
    /\ requests' = Append(requests, request_url(version, target_os))
    /\ \E ok \in BOOLEAN, status \in Statuses,
          len \in {None} \cup { Some(n) : n \in 0..MaxTotalSize } :
         response' = IF ok
                     THEN Some([ok |-> TRUE, status |-> status,
                                content_length |-> len])
                     ELSE Some([ok |-> FALSE, status |-> 0,
                                content_length |-> None])
    /\ pc' = "download_response"
    /\ UNCHANGED <<target_os, arg, version, result, stage_results,
                   bob_dir_exists, dir_created, files, total_size, downloaded,
                   pb_position, received, chunks_seen, downloaded_file, procs,
                   output>>

Fail(r) ==
    /\ result' = r
    /\ stage_results' = Append(stage_results, r.status)
    /\ pc' = "done"

\* download_version, lines 71-94 and 113-117: the response is inspected, the
\* progress bar set up, the downloads folder resolved and the file created.
DownloadOpen ==
    /\ pc = "download_response"
    /\ LET resp == response[1] IN
       IF ~resp.ok
       THEN /\ Fail(Err(NetworkError, <<>>))
            /\ UNCHANGED <<total_size, bob_dir_exists, dir_created, files>>
       ELSE IF ~response_accepted(resp.status)
       THEN /\ Fail(Err(VersionNotFound, <<>>))
            /\ UNCHANGED <<total_size, bob_dir_exists, dir_created, files>>
       ELSE IF resp.content_length = None
       THEN /\ Fail(Panic(UnwrapOnNone))
            /\ UNCHANGED <<total_size, bob_dir_exists, dir_created, files>>
       ELSE
         /\ total_size' = resp.content_length[1]
         /\ \E data_dir \in {None, Some(DataLocalDir)},
               create_ok \in BOOLEAN, file_ok \in BOOLEAN :
              LET d == get_downloads_folder(data_dir, bob_dir_exists, create_ok)
              IN
                /\ bob_dir_exists' = (bob_dir_exists \/ d.created)
                /\ dir_created' = d.created
                /\ IF ~d.ok
                   THEN /\ Fail(Err(d.error, <<>>))
                        /\ files' = files
                   ELSE IF ~file_ok
                   THEN /\ Fail(Err(IoError, <<>>))
                        /\ files' = files
                   ELSE /\ files' =
                             (archive_path(d.value, version,
                                           get_file_type(target_os)) :> <<>>)
                               @@ files
                        /\ pc' = "download_stream"
                        /\ UNCHANGED <<result, stage_results>>
    /\ UNCHANGED <<target_os, arg, version, requests, stages, response,
                   downloaded, pb_position, received, chunks_seen,
                   downloaded_file, procs, output>>

TheArchive == CHOOSE p \in DOMAIN files : TRUE

\* download_version, lines 96-102: one iteration of the streaming loop. The
\* value of file.write (Ok(n) with n <= len bytes written, or an error with
\* nothing written) is dropped.
DownloadChunk ==
    /\ pc = "download_stream"
    /\ chunks_seen < MaxChunks
    /\ \/ /\ Fail(Err(StreamError, <<>>))
          /\ UNCHANGED <<files, downloaded, pb_position, received, chunks_seen>>
       \/ \E chunk \in Chunks, n \in 0..MaxChunkLen :
            /\ n <= Len(chunk)
            /\ files' = [files EXCEPT ![TheArchive] = @ \o SubSeq(chunk, 1, n)]
            /\ downloaded' = new_position(downloaded, Len(chunk), total_size)
            /\ pb_position' = downloaded'
            /\ received' = received \o chunk
            /\ chunks_seen' = chunks_seen + 1
            /\ UNCHANGED <<result, stage_results, pc>>
    /\ UNCHANGED <<target_os, arg, version, requests, stages, bob_dir_exists,
                   dir_created, response, total_size, downloaded_file, procs,
                   output>>

Dirname(p) == SubSeq(p, 1, Len(DataLocalDir) + 4)

\* download_version, lines 96 and 104-112: the stream ends, the bar is
\* finished (indicatif moves it to its length) and the descriptor returned.
DownloadFinish ==
    /\ pc = "download_stream"
    /\ pb_position' = total_size
    /\ downloaded_file' = Some([path |-> Dirname(TheArchive),
                                extension |-> get_file_type(target_os),
                                name |-> version])
    /\ stage_results' = Append(stage_results, "ok")
    /\ pc' = "install_version"
    /\ UNCHANGED <<target_os, arg, version, result, requests, stages,
                   bob_dir_exists, dir_created, files, response, total_size,
                   downloaded, received, chunks_seen, procs, output>>

\* start, lines 30-34, and install_version: the extraction subprocess is
\* launched once and its output awaited.
InstallVersion ==
    /\ pc = "install_version"
    /\ stages' = Append(stages, "install")
    /\ LET cmd == install_command(downloaded_file[1], target_os) IN
         /\ procs' = Append(procs, cmd)
         /\ \/ /\ output' = None
               /\ Fail(Err(IoError, <<>>))
            \/ \E out \in outputs(cmd, files) :
                 /\ output' = Some(out)
                 /\ Fail(install_outcome(downloaded_file[1], out))
    /\ UNCHANGED <<target_os, arg, version, requests, bob_dir_exists,
                   dir_created, files, response, total_size, downloaded,
                   pb_position, received, chunks_seen, downloaded_file>>

Next ==
    \/ Start
    \/ ParseVersion
    \/ DownloadRequest
    \/ DownloadOpen
    \/ DownloadChunk
    \/ DownloadFinish
    \/ InstallVersion

Spec == Init /\ [][Next]_vars

\* ------------------------------------------------------------ claims
\* The version pattern, stated on the shape of the string: an optional v and
\* three non-empty runs of digits separated by two dots.
AllDigits(s, a, b) == a <= b /\ \A k \in a..b : s[k] \in Digits

MatchesVersionPattern(s) ==
    \E p \in {0, 1}, i \in 1..Len(s), j \in 1..Len(s) :
        /\ p = 1 => s[1] = "v"
        /\ s[i] = "."
        /\ s[j] = "."
        /\ AllDigits(s, p + 1, i - 1)
        /\ AllDigits(s, i + 1, j - 1)
        /\ AllDigits(s, j + 1, Len(s))

Resolved == Len(stage_results) >= 1 /\ stage_results[1] = "ok"

MissingContentLength == "MissingContentLength"

\* C1: a 200 response without a content length makes download_version return
\* the MissingContentLength error value, with no archive file created.
C1_MissingContentLengthIsAnError ==
    ( /\ response # None
      /\ response[1].ok
      /\ response[1].status = 200
      /\ response[1].content_length = None
      /\ pc # "download_response" )
    => ( /\ result.status = "err"
         /\ result.error = MissingContentLength
         /\ DOMAIN files = {} )

\* C2: on both platform branches the archive the extraction tool is told to
\* unpack is the file download_version wrote, {name}.{extension} in the
\* artifact's directory.
C2_ExtractsTheDownloadedArchive ==
    procs # <<>>
    => ( /\ procs[1].archive
              = downloaded_file[1].name \o <<".">> \o downloaded_file[1].extension
         /\ (procs[1].current_dir \o <<"/">> \o procs[1].archive)
              \in DOMAIN files )

\* C3: every version parse_version returns successfully is nightly or of the
\* form vMAJOR.MINOR.PATCH, and holds no path separator.
C3_ResolvedVersionIsCanonical ==
    Resolved
    => ( /\ \/ version = Nightly
            \/ MatchesVersionPattern(version) /\ version[1] = "v"
         /\ ~contains(version, "/")
         /\ ~contains(version, "\\") )

\* C4: for a token matching the version pattern parse_version succeeds and
\* returns the token itself if it starts with v, else the token with one v
\* prepended.
C4_MatchingTokenGetsPrefix ==
    ( /\ arg # None
      /\ MatchesVersionPattern(arg[1])
      /\ pc \notin {"start", "parse_version"} )
    => ( /\ Resolved
         /\ version = (IF arg[1][1] = "v" THEN arg[1] ELSE <<"v">> \o arg[1])
         /\ version[1] = "v" )

C4_Witness ==
    /\ arg = Some(<<"0", ".", "9", ".", "2">>)
    /\ version = <<"v", "0", ".", "9", ".", "2">>
    /\ Resolved

\* C5: a token that neither matches the pattern nor is nightly or stable fails
\* with InvalidVersionFormat; no request is issued and no file created.
C5_InvalidTokenFailsOffline ==
    ( /\ arg # None
      /\ ~MatchesVersionPattern(arg[1])
      /\ arg[1] \notin {Nightly, Stable} )
    => ( /\ requests = <<>>
         /\ DOMAIN files = {}
         /\ ~dir_created
         /\ pc \in {"start", "parse_version", "done"}
         /\ pc = "done" => result = Err(InvalidVersionFormat, <<>>) )

C5_Witness ==
    /\ arg = Some(<<"d", "o", "e", "s", "n", "o", "t", "e", "x", "i", "s", "t">>)
    /\ pc = "done"
    /\ result = Err(InvalidVersionFormat, <<>>)
    /\ stages = <<"resolve">>

\* C6: a download response with a status other than 200 yields
\* VersionNotFound, the installer is not invoked and the download stage has
\* created no file.
C6_Non200IsVersionNotFound ==
    ( /\ response # None
      /\ response[1].ok
      /\ response[1].status # 200
      /\ pc # "download_response" )
    => ( /\ result = Err(VersionNotFound, <<>>)
         /\ pc = "done"
         /\ procs = <<>>
         /\ stages = <<"resolve", "download">>
         /\ DOMAIN files = {}
         /\ ~dir_created )

C6_Witness ==
    /\ response # None
    /\ response[1].ok
    /\ response[1].status = 404
    /\ pc = "done"
    /\ result = Err(VersionNotFound, <<>>)

\* C7: in the streaming loop the progress position never decreases from one
\* chunk to the next and never exceeds the declared total.
C7_ProgressMonotoneAndClamped ==
    [][ pc = "download_stream"
        => (pb_position' >= pb_position /\ pb_position' <= total_size') ]_vars

C7_Witness ==
    /\ pc = "download_stream"
    /\ chunks_seen = 2
    /\ Len(received) > total_size
    /\ total_size > 0
    /\ pb_position = total_size

PipelineOrder == <<"resolve", "download", "install">>

IsPrefix(s, t) == Len(s) <= Len(t) /\ \A i \in 1..Len(s) : s[i] = t[i]

\* C8: start runs resolve, download, install in that order, each at most once
\* and each only after the one before succeeded; a missing argument fails
\* with NoVersionSpecified before resolution; success needs all three.
C8_SequentialShortCircuit ==
    /\ IsPrefix(stages, PipelineOrder)
    /\ Len(stage_results) <= Len(stages)
    /\ \A i \in 2..Len(stages) : stage_results[i - 1] = "ok"
    /\ \A i \in 1..Len(stage_results) :
         stage_results[i] # "ok" => pc = "done" /\ result.status # "ok"
    /\ arg = None
         => /\ stages = <<>>
            /\ pc \in {"start", "done"}
            /\ pc = "done" => result = Err(NoVersionSpecified, <<>>)
    /\ result.status = "ok"
         => stages = PipelineOrder /\ stage_results = <<"ok", "ok", "ok">>

C8_Witness ==
    /\ pc = "done"
    /\ result = Ok
    /\ stages = PipelineOrder

\* C9: install_version launches one subprocess, in the artifact's directory,
\* and a non-zero exit makes it return ExtractionFailed with the captured
\* stderr text; it reports success only after a zero exit.
C9_NonZeroExitIsExtractionFailed ==
    ( pc = "done" /\ Len(stages) = 3 )
    => ( /\ Len(procs) = 1
         /\ procs[1].current_dir = downloaded_file[1].path
         /\ (output # None /\ ~output[1].success)
              => result = Err(ExtractionFailed,
                              downloaded_file[1].name \o <<" ">>
                                \o from_utf8_lossy(output[1].stderr))
         /\ result.status = "ok" => (output # None /\ output[1].success) )

C9_Witness ==
    /\ pc = "done"
    /\ Len(procs) = 1
    /\ output # None
    /\ ~output[1].success
    /\ output[1].stderr = <<"e", "0xFF">>
    /\ result.error = ExtractionFailed
    /\ result.detail = version \o <<" ", "e", "U+FFFD">>

\* C10: whenever download_version returns a descriptor the archive file holds
\* the concatenation of all received chunks, in arrival order.
C10_FileHoldsAllChunks ==
    downloaded_file # None => files[TheArchive] = received

====
